---------------------------- MODULE Spec2Model ----------------------------
(***************************************************************************)
(* A model of the PRSTA project: the data.gouv.fr downloader               *)
(* (src/scrap.py, class DataGouvFrScrapper) and the RTE block parser       *)
(* (src/main.py, read_rte_file / process_block).                           *)
(*                                                                         *)
(* Strings of the program are modelled as sequences of characters, so that *)
(* split, strip, substring search and the date regex are computed          *)
(* character by character as the Python code computes them.  A printable   *)
(* ASCII character is the one-character string of itself; tab, line feed,  *)
(* form feed and carriage return are "\t", "\n", "\f" and "\r"; every      *)
(* other character is the string of its code point, "U+" and at least four *)
(* hexadecimal digits: "U+000B", "U+00A0", "U+0660", "U+1D7CE".            *)
(***************************************************************************)
EXTENDS Integers, Sequences, FiniteSets, TLC

VARIABLES
    \* ---- DataGouvFrScrapper (src/scrap.py) ----
    max_retries,   \* self.max_retries
    infos,         \* self.infos: None or the JSON body of the dataset endpoint
    resources,     \* self.resources
    dirs,          \* file system: the directories that exist
    files,         \* file system: path -> content of the regular files
    pc,            \* position of the running call: "idle", "fetch_infos", "for", "while"
    op,            \* the public method the caller invoked last
    force,         \* its force argument
    filter,        \* its filter argument (download_resources)
    attempt,       \* the local variable attempt of the running retry loop
    idx,           \* position of the for loop of download_resources (1-based)
    result,        \* how the last call ended: "none", "running", "returned", an exception
    ncalls,        \* number of public calls made so far
    \* observations of the running (or last) call
    info_reqs,     \* GET requests sent to the dataset-info endpoint
    info_fails,    \* how many of them failed
    last_body,     \* the JSON body of the last successful dataset-info response
    sleeps,        \* time.sleep calls of the running retry loop
    res_reqs,      \* per resource position: GET requests sent for it
    res_log,       \* per resource position: what the loop did with it
    makedirs_done, \* whether os.makedirs has returned in this call
    \* ---- read_rte_file (src/main.py) ----
    lines_read,           \* the lines of the file the for loop has consumed
    all_dfs,              \* all_dfs: the blocks emitted so far
    current_date,         \* current_date: None or a date
    current_block_lines,  \* current_block_lines
    block_src,            \* line number in the file of each accumulated line
    in_data_block,        \* in_data_block
    ppc,                  \* "scan", "done" (returned), "raised", "unreadable"
                          \* or "not_called"
    table,                \* the table read_rte_file returns
    \* ---- main (src/main.py) ----
    mpc,                  \* "start", "returned" or "propagated"
    csv                   \* the output CSV file: None or what to_csv wrote

scrap_vars == <<max_retries, infos, resources, dirs, files, pc, op, force, filter,
                attempt, idx, result, ncalls, info_reqs, info_fails, last_body,
                sleeps, res_reqs, res_log, makedirs_done>>

parse_vars == <<lines_read, all_dfs, current_date, current_block_lines, block_src,
                in_data_block, ppc, table>>

main_vars == <<mpc, csv>>

vars == <<scrap_vars, parse_vars, main_vars>>

-----------------------------------------------------------------------------
\* Bounds of the model

\* largest max_retries the constructor is given
MaxRetries == 2
\* number of public calls made on one scrapper object
MaxCalls == 2
\* number of lines of the file read_rte_file is given
MaxLines == 6
\* the same, for the files that hold lines of OddLines
MaxOddLines == 4
\* the same, for the files main is run on
MaxMainLines == 3

-----------------------------------------------------------------------------
\* Character strings

\* the least and the greatest member of a non-empty set of positions
First(S) == CHOOSE i \in S : \A j \in S : i <= j
Last(S) == CHOOSE i \in S : \A j \in S : j <= i

\* the positions of the character sep in s
SepPositions(s, sep) == {i \in 1..Len(s) : s[i] = sep}

\* str.split(sep)[-1]: the characters after the last occurrence of sep
LastSegment(s, sep) ==
    IF SepPositions(s, sep) = {} THEN s
    ELSE SubSeq(s, Last(SepPositions(s, sep)) + 1, Len(s))

\* the characters str.strip() removes: those str.isspace() is true for
\* (Unicode 14.0, the table of Python 3.11)
Whitespace ==
    { "\t", "\n", "U+000B", "\f", "\r", "U+001C", "U+001D", "U+001E",
      "U+001F", " ", "U+0085", "U+00A0", "U+1680", "U+2000", "U+2001",
      "U+2002", "U+2003", "U+2004", "U+2005", "U+2006", "U+2007", "U+2008",
      "U+2009", "U+200A", "U+2028", "U+2029", "U+202F", "U+205F", "U+3000" }

\* the positions of s that hold no whitespace
Inked(s) == {i \in 1..Len(s) : s[i] \notin Whitespace}

LStrip(s) == IF Inked(s) = {} THEN <<>> ELSE SubSeq(s, First(Inked(s)), Len(s))

RStrip(s) == IF Inked(s) = {} THEN <<>> ELSE SubSeq(s, 1, Last(Inked(s)))

\* str.strip()
Strip(s) == RStrip(LStrip(s))

\* s.startswith(p)
StartsWith(s, p) == Len(s) >= Len(p) /\ SubSeq(s, 1, Len(p)) = p

\* sub in s
Contains(s, sub) ==
    \E i \in 1..(Len(s) - Len(sub) + 1) : SubSeq(s, i, i + Len(sub) - 1) = sub

\* the k-th position of the character sep in s: 0 before the first and
\* Len(s) + 1 after the last
NthSep(s, sep, k) ==
    IF k = 0 THEN 0
    ELSE IF k > Cardinality(SepPositions(s, sep)) THEN Len(s) + 1
    ELSE CHOOSE p \in SepPositions(s, sep) :
             Cardinality({q \in SepPositions(s, sep) : q <= p}) = k

\* str.split(sep): the fields between the occurrences of the character sep
Split(s, sep) ==
    [k \in 1..(Cardinality(SepPositions(s, sep)) + 1) |->
        SubSeq(s, NthSep(s, sep, k - 1) + 1, NthSep(s, sep, k) - 1)]

\* the ASCII digits
AsciiDigits == {"0", "1", "2", "3", "4", "5", "6", "7", "8", "9"}

\* the decimal digits of Unicode 14.0 (the table of Python 3.11), the ten
\* digits of each script in the order of their values
DecimalDigitBlocks ==
    {
      <<"0", "1", "2", "3", "4", "5", "6", "7", "8", "9">>,
      <<"U+0660", "U+0661", "U+0662", "U+0663", "U+0664", "U+0665", "U+0666", "U+0667", "U+0668", "U+0669">>,
      <<"U+06F0", "U+06F1", "U+06F2", "U+06F3", "U+06F4", "U+06F5", "U+06F6", "U+06F7", "U+06F8", "U+06F9">>,
      <<"U+07C0", "U+07C1", "U+07C2", "U+07C3", "U+07C4", "U+07C5", "U+07C6", "U+07C7", "U+07C8", "U+07C9">>,
      <<"U+0966", "U+0967", "U+0968", "U+0969", "U+096A", "U+096B", "U+096C", "U+096D", "U+096E", "U+096F">>,
      <<"U+09E6", "U+09E7", "U+09E8", "U+09E9", "U+09EA", "U+09EB", "U+09EC", "U+09ED", "U+09EE", "U+09EF">>,
      <<"U+0A66", "U+0A67", "U+0A68", "U+0A69", "U+0A6A", "U+0A6B", "U+0A6C", "U+0A6D", "U+0A6E", "U+0A6F">>,
      <<"U+0AE6", "U+0AE7", "U+0AE8", "U+0AE9", "U+0AEA", "U+0AEB", "U+0AEC", "U+0AED", "U+0AEE", "U+0AEF">>,
      <<"U+0B66", "U+0B67", "U+0B68", "U+0B69", "U+0B6A", "U+0B6B", "U+0B6C", "U+0B6D", "U+0B6E", "U+0B6F">>,
      <<"U+0BE6", "U+0BE7", "U+0BE8", "U+0BE9", "U+0BEA", "U+0BEB", "U+0BEC", "U+0BED", "U+0BEE", "U+0BEF">>,
      <<"U+0C66", "U+0C67", "U+0C68", "U+0C69", "U+0C6A", "U+0C6B", "U+0C6C", "U+0C6D", "U+0C6E", "U+0C6F">>,
      <<"U+0CE6", "U+0CE7", "U+0CE8", "U+0CE9", "U+0CEA", "U+0CEB", "U+0CEC", "U+0CED", "U+0CEE", "U+0CEF">>,
      <<"U+0D66", "U+0D67", "U+0D68", "U+0D69", "U+0D6A", "U+0D6B", "U+0D6C", "U+0D6D", "U+0D6E", "U+0D6F">>,
      <<"U+0DE6", "U+0DE7", "U+0DE8", "U+0DE9", "U+0DEA", "U+0DEB", "U+0DEC", "U+0DED", "U+0DEE", "U+0DEF">>,
      <<"U+0E50", "U+0E51", "U+0E52", "U+0E53", "U+0E54", "U+0E55", "U+0E56", "U+0E57", "U+0E58", "U+0E59">>,
      <<"U+0ED0", "U+0ED1", "U+0ED2", "U+0ED3", "U+0ED4", "U+0ED5", "U+0ED6", "U+0ED7", "U+0ED8", "U+0ED9">>,
      <<"U+0F20", "U+0F21", "U+0F22", "U+0F23", "U+0F24", "U+0F25", "U+0F26", "U+0F27", "U+0F28", "U+0F29">>,
      <<"U+1040", "U+1041", "U+1042", "U+1043", "U+1044", "U+1045", "U+1046", "U+1047", "U+1048", "U+1049">>,
      <<"U+1090", "U+1091", "U+1092", "U+1093", "U+1094", "U+1095", "U+1096", "U+1097", "U+1098", "U+1099">>,
      <<"U+17E0", "U+17E1", "U+17E2", "U+17E3", "U+17E4", "U+17E5", "U+17E6", "U+17E7", "U+17E8", "U+17E9">>,
      <<"U+1810", "U+1811", "U+1812", "U+1813", "U+1814", "U+1815", "U+1816", "U+1817", "U+1818", "U+1819">>,
      <<"U+1946", "U+1947", "U+1948", "U+1949", "U+194A", "U+194B", "U+194C", "U+194D", "U+194E", "U+194F">>,
      <<"U+19D0", "U+19D1", "U+19D2", "U+19D3", "U+19D4", "U+19D5", "U+19D6", "U+19D7", "U+19D8", "U+19D9">>,
      <<"U+1A80", "U+1A81", "U+1A82", "U+1A83", "U+1A84", "U+1A85", "U+1A86", "U+1A87", "U+1A88", "U+1A89">>,
      <<"U+1A90", "U+1A91", "U+1A92", "U+1A93", "U+1A94", "U+1A95", "U+1A96", "U+1A97", "U+1A98", "U+1A99">>,
      <<"U+1B50", "U+1B51", "U+1B52", "U+1B53", "U+1B54", "U+1B55", "U+1B56", "U+1B57", "U+1B58", "U+1B59">>,
      <<"U+1BB0", "U+1BB1", "U+1BB2", "U+1BB3", "U+1BB4", "U+1BB5", "U+1BB6", "U+1BB7", "U+1BB8", "U+1BB9">>,
      <<"U+1C40", "U+1C41", "U+1C42", "U+1C43", "U+1C44", "U+1C45", "U+1C46", "U+1C47", "U+1C48", "U+1C49">>,
      <<"U+1C50", "U+1C51", "U+1C52", "U+1C53", "U+1C54", "U+1C55", "U+1C56", "U+1C57", "U+1C58", "U+1C59">>,
      <<"U+A620", "U+A621", "U+A622", "U+A623", "U+A624", "U+A625", "U+A626", "U+A627", "U+A628", "U+A629">>,
      <<"U+A8D0", "U+A8D1", "U+A8D2", "U+A8D3", "U+A8D4", "U+A8D5", "U+A8D6", "U+A8D7", "U+A8D8", "U+A8D9">>,
      <<"U+A900", "U+A901", "U+A902", "U+A903", "U+A904", "U+A905", "U+A906", "U+A907", "U+A908", "U+A909">>,
      <<"U+A9D0", "U+A9D1", "U+A9D2", "U+A9D3", "U+A9D4", "U+A9D5", "U+A9D6", "U+A9D7", "U+A9D8", "U+A9D9">>,
      <<"U+A9F0", "U+A9F1", "U+A9F2", "U+A9F3", "U+A9F4", "U+A9F5", "U+A9F6", "U+A9F7", "U+A9F8", "U+A9F9">>,
      <<"U+AA50", "U+AA51", "U+AA52", "U+AA53", "U+AA54", "U+AA55", "U+AA56", "U+AA57", "U+AA58", "U+AA59">>,
      <<"U+ABF0", "U+ABF1", "U+ABF2", "U+ABF3", "U+ABF4", "U+ABF5", "U+ABF6", "U+ABF7", "U+ABF8", "U+ABF9">>,
      <<"U+FF10", "U+FF11", "U+FF12", "U+FF13", "U+FF14", "U+FF15", "U+FF16", "U+FF17", "U+FF18", "U+FF19">>,
      <<"U+104A0", "U+104A1", "U+104A2", "U+104A3", "U+104A4", "U+104A5", "U+104A6", "U+104A7", "U+104A8", "U+104A9">>,
      <<"U+10D30", "U+10D31", "U+10D32", "U+10D33", "U+10D34", "U+10D35", "U+10D36", "U+10D37", "U+10D38", "U+10D39">>,
      <<"U+11066", "U+11067", "U+11068", "U+11069", "U+1106A", "U+1106B", "U+1106C", "U+1106D", "U+1106E", "U+1106F">>,
      <<"U+110F0", "U+110F1", "U+110F2", "U+110F3", "U+110F4", "U+110F5", "U+110F6", "U+110F7", "U+110F8", "U+110F9">>,
      <<"U+11136", "U+11137", "U+11138", "U+11139", "U+1113A", "U+1113B", "U+1113C", "U+1113D", "U+1113E", "U+1113F">>,
      <<"U+111D0", "U+111D1", "U+111D2", "U+111D3", "U+111D4", "U+111D5", "U+111D6", "U+111D7", "U+111D8", "U+111D9">>,
      <<"U+112F0", "U+112F1", "U+112F2", "U+112F3", "U+112F4", "U+112F5", "U+112F6", "U+112F7", "U+112F8", "U+112F9">>,
      <<"U+11450", "U+11451", "U+11452", "U+11453", "U+11454", "U+11455", "U+11456", "U+11457", "U+11458", "U+11459">>,
      <<"U+114D0", "U+114D1", "U+114D2", "U+114D3", "U+114D4", "U+114D5", "U+114D6", "U+114D7", "U+114D8", "U+114D9">>,
      <<"U+11650", "U+11651", "U+11652", "U+11653", "U+11654", "U+11655", "U+11656", "U+11657", "U+11658", "U+11659">>,
      <<"U+116C0", "U+116C1", "U+116C2", "U+116C3", "U+116C4", "U+116C5", "U+116C6", "U+116C7", "U+116C8", "U+116C9">>,
      <<"U+11730", "U+11731", "U+11732", "U+11733", "U+11734", "U+11735", "U+11736", "U+11737", "U+11738", "U+11739">>,
      <<"U+118E0", "U+118E1", "U+118E2", "U+118E3", "U+118E4", "U+118E5", "U+118E6", "U+118E7", "U+118E8", "U+118E9">>,
      <<"U+11950", "U+11951", "U+11952", "U+11953", "U+11954", "U+11955", "U+11956", "U+11957", "U+11958", "U+11959">>,
      <<"U+11C50", "U+11C51", "U+11C52", "U+11C53", "U+11C54", "U+11C55", "U+11C56", "U+11C57", "U+11C58", "U+11C59">>,
      <<"U+11D50", "U+11D51", "U+11D52", "U+11D53", "U+11D54", "U+11D55", "U+11D56", "U+11D57", "U+11D58", "U+11D59">>,
      <<"U+11DA0", "U+11DA1", "U+11DA2", "U+11DA3", "U+11DA4", "U+11DA5", "U+11DA6", "U+11DA7", "U+11DA8", "U+11DA9">>,
      <<"U+16A60", "U+16A61", "U+16A62", "U+16A63", "U+16A64", "U+16A65", "U+16A66", "U+16A67", "U+16A68", "U+16A69">>,
      <<"U+16AC0", "U+16AC1", "U+16AC2", "U+16AC3", "U+16AC4", "U+16AC5", "U+16AC6", "U+16AC7", "U+16AC8", "U+16AC9">>,
      <<"U+16B50", "U+16B51", "U+16B52", "U+16B53", "U+16B54", "U+16B55", "U+16B56", "U+16B57", "U+16B58", "U+16B59">>,
      <<"U+1D7CE", "U+1D7CF", "U+1D7D0", "U+1D7D1", "U+1D7D2", "U+1D7D3", "U+1D7D4", "U+1D7D5", "U+1D7D6", "U+1D7D7">>,
      <<"U+1D7D8", "U+1D7D9", "U+1D7DA", "U+1D7DB", "U+1D7DC", "U+1D7DD", "U+1D7DE", "U+1D7DF", "U+1D7E0", "U+1D7E1">>,
      <<"U+1D7E2", "U+1D7E3", "U+1D7E4", "U+1D7E5", "U+1D7E6", "U+1D7E7", "U+1D7E8", "U+1D7E9", "U+1D7EA", "U+1D7EB">>,
      <<"U+1D7EC", "U+1D7ED", "U+1D7EE", "U+1D7EF", "U+1D7F0", "U+1D7F1", "U+1D7F2", "U+1D7F3", "U+1D7F4", "U+1D7F5">>,
      <<"U+1D7F6", "U+1D7F7", "U+1D7F8", "U+1D7F9", "U+1D7FA", "U+1D7FB", "U+1D7FC", "U+1D7FD", "U+1D7FE", "U+1D7FF">>,
      <<"U+1E140", "U+1E141", "U+1E142", "U+1E143", "U+1E144", "U+1E145", "U+1E146", "U+1E147", "U+1E148", "U+1E149">>,
      <<"U+1E2F0", "U+1E2F1", "U+1E2F2", "U+1E2F3", "U+1E2F4", "U+1E2F5", "U+1E2F6", "U+1E2F7", "U+1E2F8", "U+1E2F9">>,
      <<"U+1E950", "U+1E951", "U+1E952", "U+1E953", "U+1E954", "U+1E955", "U+1E956", "U+1E957", "U+1E958", "U+1E959">>,
      <<"U+1FBF0", "U+1FBF1", "U+1FBF2", "U+1FBF3", "U+1FBF4", "U+1FBF5", "U+1FBF6", "U+1FBF7", "U+1FBF8", "U+1FBF9">>
    }

\* the characters \d of re matches and float() reads as digits: those
\* str.isdecimal() is true for
Digits == {b[i] : b \in DecimalDigitBlocks, i \in 1..10}

\* the value of each decimal digit
DigitValueOf ==
    [c \in Digits |->
        CHOOSE v \in 0..9 : \E b \in DecimalDigitBlocks : b[v + 1] = c]

DigitValue(c) == DigitValueOf[c]

AllDigits(s) == \A i \in 1..Len(s) : s[i] \in Digits

\* the number a string of digits denotes
RECURSIVE ToInt(_)
ToInt(s) ==
    IF s = <<>> THEN 0
    ELSE 10 * ToInt(SubSeq(s, 1, Len(s) - 1)) + DigitValue(s[Len(s)])

\* os.path.join(a, b) for a relative b and a non-empty a
PathJoin(a, b) ==
    IF a[Len(a)] = "/" THEN a \o b ELSE a \o <<"/">> \o b

-----------------------------------------------------------------------------
\* The portal and the file system

\* Python's None
None == [none |-> TRUE]

UrlA == <<"h", "/", "a">>
UrlB == <<"h", "/", "b">>
\* another host, same last path segment as UrlA
UrlC == <<"g", "/", "a">>
\* a URL that ends with "/": its last segment is empty
UrlD == <<"h", "/">>

Resource(u) == [url |-> u]

\* JSON bodies the dataset-info endpoint may answer with
InfoBodies ==
    { [resources |-> <<Resource(UrlA), Resource(UrlB)>>],
      [resources |-> <<Resource(UrlB), Resource(UrlC), Resource(UrlD)>>],
      [title |-> <<"t">>] }

\* response.content of a resource URL
ResponseContent(u) == <<"#">> \o u

\* the download_path argument
DownloadPath == <<"d">>

\* the filter argument: None or a predicate over URLs (the set it accepts)
NoFilter == [given |-> FALSE, accept |-> {}]
Filters ==
    { NoFilter,
      [given |-> TRUE, accept |-> {UrlA, UrlC}],
      [given |-> TRUE, accept |-> {}] }

\* dict.get(key, default)
Get(obj, key, default) == IF key \in DOMAIN obj THEN obj[key] ELSE default

\* os.path.exists(p): a regular file, or a directory (a trailing "/" names
\* the directory itself)
PathExists(p) ==
    \/ p \in DOMAIN files
    \/ p \in dirs
    \/ (Len(p) > 1 /\ p[Len(p)] = "/" /\ SubSeq(p, 1, Len(p) - 1) \in dirs)

\* filename = os.path.join(download_path, resource_url.split("/")[-1])
Filename(u) == PathJoin(DownloadPath, LastSegment(u, "/"))

\* open(filename, "wb") followed by a write of the first k bytes of data
WriteFile(fs, name, data, k) ==
    [p \in DOMAIN fs \cup {name} |-> IF p = name THEN SubSeq(data, 1, k) ELSE fs[p]]

\* the filter test without its negation
FilteredOut_NotNegated(flt, u) == flt.given /\ u \in flt.accept

\* filter and not filter(resource_url)
FilteredOut(flt, u) == flt.given /\ u \notin flt.accept


-----------------------------------------------------------------------------
\* DataGouvFrScrapper: conditions of the code

\* the cache test with the None test inverted
InfosCached_TestInverted(f) == ~f /\ infos = None

\* _fetch_dataset_infos: "if not force and self.infos is not None: return"
InfosCached(f) == ~f /\ infos # None

\* the loop condition off by one
InfosLoopCond_OffByOne(a) == a <= max_retries

\* _fetch_dataset_infos: "while attempt < self.max_retries"
InfosLoopCond(a) == a < max_retries

\* _fetch_dataset_infos: "if attempt < self.max_retries: time.sleep(...)"
InfosSleepCond(a) == a < max_retries

\* fetch_resources: "if not force and len(self.resources) > 0: return self.resources"
ResourcesCached(f) == ~f /\ Len(resources) > 0

\* fetch_resources: "if self.infos is None: self._fetch_dataset_infos()"
NeedInfos == infos = None

\* download_resources: "while attempt < self.max_retries"
DownloadLoopCond(a) == a < max_retries

\* the counter initialised once, before the for loop, and not per resource
FirstAttempt_KeepsCount(a) == a

\* download_resources: "attempt = 0" before the while loop of each resource;
\* a is the value the variable holds from the previous resource
FirstAttempt(a) == 0

\* a sleep after every failed attempt, the last one included
DownloadSleepCond_AfterLast(a) == a <= max_retries

\* download_resources: "if attempt < self.max_retries: time.sleep(...)"
DownloadSleepCond(a) == a < max_retries

\* the existence test applied to the URL and not to the filename
SkipExisting_ChecksUrl(u) == PathExists(u)

\* download_resources: "if os.path.exists(filename): continue"
SkipExisting(u) == PathExists(Filename(u))

-----------------------------------------------------------------------------
\* DataGouvFrScrapper: how a call goes on and ends

\* os.makedirs reached before fetch_resources has returned
NotInLoop_MakesDir ==
    /\ dirs' = dirs \cup {DownloadPath}
    /\ makedirs_done' = FALSE
    /\ idx' = 0
    /\ res_reqs' = <<>>
    /\ res_log' = <<>>

\* the for loop of download_resources has not been reached in this call
NotInLoop ==
    /\ dirs' = dirs
    /\ makedirs_done' = FALSE
    /\ idx' = 0
    /\ res_reqs' = <<>>
    /\ res_log' = <<>>

\* a call that has not reached the for loop returns to its caller
ReturnNow ==
    /\ pc' = "idle"
    /\ result' = "returned"
    /\ attempt' = attempt
    /\ NotInLoop

\* _fetch_dataset_infos past its cache test: "attempt = 0" and the first test
\* of the while condition; "raise Exception('Max retries exceeded')" after it
EnterFetchInfos ==
    /\ attempt' = 0
    /\ NotInLoop
    /\ IF InfosLoopCond(0)
       THEN pc' = "fetch_infos" /\ result' = "running"
       ELSE pc' = "idle" /\ result' = "MaxRetriesExceeded"

\* download_resources after fetch_resources returned rs: os.makedirs makes
\* the directory (or finds it) and the for loop starts at its first
\* resource; or os.makedirs raises OSError (the working directory is gone or
\* may not be searched, no room for a directory entry), which no except
\* clause catches: the call ends before the for loop, with no directory
\* made and no resource requested
EnterFor(rs) ==
    \/ /\ dirs' = dirs \cup {DownloadPath}
       /\ makedirs_done' = TRUE
       /\ idx' = 1
       /\ attempt' = 0
       /\ pc' = "for"
       /\ result' = "running"
       /\ res_reqs' = [i \in 1..Len(rs) |-> 0]
       /\ res_log' = [i \in 1..Len(rs) |-> "pending"]
    \/ /\ pc' = "idle"
       /\ result' = "OSError"
       /\ attempt' = attempt
       /\ NotInLoop

\* fetch_resources returns rs, to the caller or to download_resources
FinishFetchResources(o, rs) ==
    IF o = "fetch_resources" THEN ReturnNow ELSE EnterFor(rs)

\* the body of fetch_resources(force=f), called directly
\* (o = "fetch_resources") or by download_resources
FetchResourcesBody(o, f) ==
    IF ResourcesCached(f)
    THEN /\ UNCHANGED <<infos, resources>>
         /\ FinishFetchResources(o, resources)
    ELSE IF NeedInfos
    THEN \* self._fetch_dataset_infos(): force is not passed on
         /\ UNCHANGED <<infos, resources>>
         /\ EnterFetchInfos
    ELSE /\ UNCHANGED infos
         /\ resources' = Get(infos, "resources", <<>>)
         /\ FinishFetchResources(o, resources')

\* a public call starts: its arguments are recorded and the observations reset
StartCall(o, f, flt) ==
    /\ pc = "idle"
    /\ ncalls < MaxCalls
    /\ ncalls' = ncalls + 1
    /\ op' = o
    /\ force' = f
    /\ filter' = flt
    /\ info_reqs' = 0
    /\ info_fails' = 0
    /\ last_body' = None
    /\ sleeps' = 0
    /\ UNCHANGED <<max_retries, files>>
    /\ UNCHANGED <<parse_vars, main_vars>>

-----------------------------------------------------------------------------
\* DataGouvFrScrapper: the public calls

\* scrapper._fetch_dataset_infos(force=f)
Call_fetch_dataset_infos(f) ==
    /\ StartCall("_fetch_dataset_infos", f, NoFilter)
    /\ UNCHANGED <<infos, resources>>
    /\ IF InfosCached(f) THEN ReturnNow ELSE EnterFetchInfos

\* scrapper.fetch_resources(force=f)
Call_fetch_resources(f) ==
    /\ StartCall("fetch_resources", f, NoFilter)
    /\ FetchResourcesBody("fetch_resources", f)

\* scrapper.download_resources(download_path, force=f, filter=flt)
Call_download_resources(f, flt) ==
    /\ StartCall("download_resources", f, flt)
    /\ FetchResourcesBody("download_resources", f)

-----------------------------------------------------------------------------
\* DataGouvFrScrapper: one iteration of the retry loop of _fetch_dataset_infos

\* requests.get and raise_for_status succeed; response.json() is body
InfosRequestOk(body) ==
    /\ pc = "fetch_infos"
    /\ InfosLoopCond(attempt)
    /\ infos' = body
    /\ info_reqs' = info_reqs + 1
    /\ last_body' = body
    /\ IF op = "_fetch_dataset_infos"
       THEN resources' = resources /\ ReturnNow
       ELSE /\ resources' = Get(body, "resources", <<>>)
            /\ FinishFetchResources(op, resources')
    /\ UNCHANGED <<max_retries, files, op, force, filter, ncalls, info_fails, sleeps>>
    /\ UNCHANGED <<parse_vars, main_vars>>

\* a failed request that drops the cached descriptor
InfosRequestFails_DropsCache ==
    /\ pc = "fetch_infos"
    /\ InfosLoopCond(attempt)
    /\ attempt' = attempt + 1
    /\ info_reqs' = info_reqs + 1
    /\ info_fails' = info_fails + 1
    /\ infos' = None
    /\ sleeps' = IF InfosSleepCond(attempt') THEN sleeps + 1 ELSE sleeps
    /\ IF InfosLoopCond(attempt')
       THEN pc' = "fetch_infos" /\ result' = "running"
       ELSE pc' = "idle" /\ result' = "MaxRetriesExceeded"
    /\ UNCHANGED <<max_retries, resources, dirs, files, op, force, filter,
                   idx, ncalls, last_body, res_reqs, res_log, makedirs_done>>
    /\ UNCHANGED <<parse_vars, main_vars>>

\* requests.get or raise_for_status raises a RequestException
InfosRequestFails ==
    /\ pc = "fetch_infos"
    /\ InfosLoopCond(attempt)
    /\ attempt' = attempt + 1
    /\ info_reqs' = info_reqs + 1
    /\ info_fails' = info_fails + 1
    /\ sleeps' = IF InfosSleepCond(attempt') THEN sleeps + 1 ELSE sleeps
    /\ IF InfosLoopCond(attempt')
       THEN pc' = "fetch_infos" /\ result' = "running"
       ELSE pc' = "idle" /\ result' = "MaxRetriesExceeded"
    /\ UNCHANGED <<max_retries, infos, resources, dirs, files, op, force, filter,
                   idx, ncalls, last_body, res_reqs, res_log, makedirs_done>>
    /\ UNCHANGED <<parse_vars, main_vars>>

-----------------------------------------------------------------------------
\* DataGouvFrScrapper: the for loop of download_resources

\* resource.get("url") of the resource the for loop is at
CurrentUrl == resources[idx].url

\* the for loop goes on with the next resource, having logged what
NextResource(what) ==
    /\ res_log' = [res_log EXCEPT ![idx] = what]
    /\ idx' = idx + 1
    /\ pc' = "for"
    /\ result' = "running"

\* exhausted retries raising, as they do in _fetch_dataset_infos
GiveUp_Raises ==
    /\ pc' = "idle"
    /\ result' = "MaxRetriesExceeded"
    /\ UNCHANGED <<idx, res_log>>

\* the else clause of the while loop: the failure is logged and the for loop
\* goes on
GiveUp == NextResource("failed")

\* the list is exhausted: download_resources returns
ForDone ==
    /\ pc = "for"
    /\ idx > Len(resources)
    /\ pc' = "idle"
    /\ result' = "returned"
    /\ UNCHANGED <<max_retries, infos, resources, dirs, files, op, force, filter,
                   attempt, idx, ncalls, info_reqs, info_fails, last_body, sleeps,
                   res_reqs, res_log, makedirs_done>>
    /\ UNCHANGED <<parse_vars, main_vars>>

\* "if filter and not filter(resource_url): continue"
ForFiltered ==
    /\ pc = "for"
    /\ idx <= Len(resources)
    /\ FilteredOut(filter, CurrentUrl)
    /\ NextResource("filtered")
    /\ UNCHANGED <<max_retries, infos, resources, dirs, files, op, force, filter,
                   attempt, ncalls, info_reqs, info_fails, last_body, sleeps, res_reqs,
                   makedirs_done>>
    /\ UNCHANGED <<parse_vars, main_vars>>

\* "if os.path.exists(filename): continue"
ForExists ==
    /\ pc = "for"
    /\ idx <= Len(resources)
    /\ ~FilteredOut(filter, CurrentUrl)
    /\ SkipExisting(CurrentUrl)
    /\ NextResource("exists")
    /\ UNCHANGED <<max_retries, infos, resources, dirs, files, op, force, filter,
                   attempt, ncalls, info_reqs, info_fails, last_body, sleeps, res_reqs,
                   makedirs_done>>
    /\ UNCHANGED <<parse_vars, main_vars>>

\* "attempt = 0" and the first test of the while condition; the else clause of
\* the while logs the failure when the loop ends without break
ForFetch ==
    /\ pc = "for"
    /\ idx <= Len(resources)
    /\ ~FilteredOut(filter, CurrentUrl)
    /\ ~SkipExisting(CurrentUrl)
    /\ sleeps' = 0
    /\ attempt' = FirstAttempt(attempt)
    /\ IF DownloadLoopCond(attempt')
       THEN /\ pc' = "while" /\ result' = "running"
            /\ UNCHANGED <<idx, res_log>>
       ELSE GiveUp
    /\ UNCHANGED <<max_retries, infos, resources, dirs, files, op, force, filter,
                   ncalls, info_reqs, info_fails, last_body, res_reqs,
                   makedirs_done>>
    /\ UNCHANGED <<parse_vars, main_vars>>

\* requests.get succeeds and the whole body is written: break
DownloadOk ==
    /\ pc = "while"
    /\ DownloadLoopCond(attempt)
    /\ res_reqs' = [res_reqs EXCEPT ![idx] = @ + 1]
    /\ files' = WriteFile(files, Filename(CurrentUrl), ResponseContent(CurrentUrl),
                          Len(ResponseContent(CurrentUrl)))
    /\ NextResource("downloaded")
    /\ UNCHANGED <<max_retries, infos, resources, dirs, op, force, filter,
                   attempt, ncalls, info_reqs, info_fails, last_body, sleeps, makedirs_done>>
    /\ UNCHANGED <<parse_vars, main_vars>>

\* requests.get succeeds and open(filename, "wb") raises OSError before the
\* file exists (no descriptor left, no room for a directory entry): no
\* except clause catches it, and nothing is left behind
DownloadOpenFails ==
    /\ pc = "while"
    /\ DownloadLoopCond(attempt)
    /\ res_reqs' = [res_reqs EXCEPT ![idx] = @ + 1]
    /\ res_log' = [res_log EXCEPT ![idx] = "write_error"]
    /\ pc' = "idle"
    /\ result' = "OSError"
    /\ UNCHANGED <<max_retries, infos, resources, dirs, files, op, force, filter,
                   attempt, idx, ncalls, info_reqs, info_fails, last_body, sleeps,
                   makedirs_done>>
    /\ UNCHANGED <<parse_vars, main_vars>>

\* requests.get succeeds, open(filename, "wb") creates the file, and f.write
\* raises OSError after k bytes: no except clause catches it
DownloadWriteFails ==
    /\ pc = "while"
    /\ DownloadLoopCond(attempt)
    /\ res_reqs' = [res_reqs EXCEPT ![idx] = @ + 1]
    /\ \E k \in 0..(Len(ResponseContent(CurrentUrl)) - 1) :
          files' = WriteFile(files, Filename(CurrentUrl), ResponseContent(CurrentUrl), k)
    /\ res_log' = [res_log EXCEPT ![idx] = "write_error"]
    /\ pc' = "idle"
    /\ result' = "OSError"
    /\ UNCHANGED <<max_retries, infos, resources, dirs, op, force, filter, attempt,
                   idx, ncalls, info_reqs, info_fails, last_body, sleeps,
                   makedirs_done>>
    /\ UNCHANGED <<parse_vars, main_vars>>

\* requests.get or raise_for_status raises a RequestException
DownloadRequestFails ==
    /\ pc = "while"
    /\ DownloadLoopCond(attempt)
    /\ res_reqs' = [res_reqs EXCEPT ![idx] = @ + 1]
    /\ attempt' = attempt + 1
    /\ sleeps' = IF DownloadSleepCond(attempt') THEN sleeps + 1 ELSE sleeps
    /\ IF DownloadLoopCond(attempt')
       THEN /\ pc' = "while" /\ result' = "running"
            /\ UNCHANGED <<idx, res_log>>
       ELSE GiveUp
    /\ UNCHANGED <<max_retries, infos, resources, dirs, files, op, force, filter,
                   ncalls, info_reqs, info_fails, last_body, makedirs_done>>
    /\ UNCHANGED <<parse_vars, main_vars>>

-----------------------------------------------------------------------------
\* The scrapper object after construction

\* DataGouvFrScrapper(dataset_id, timeout, max_retries, sleep_between_retries)
\* on an empty destination
ScrapInit ==
    /\ max_retries \in 1..MaxRetries
    /\ infos = None
    /\ resources = <<>>
    /\ dirs = {}
    /\ files = <<>>
    /\ pc = "idle"
    /\ op = "none"
    /\ force = FALSE
    /\ filter = NoFilter
    /\ attempt = 0
    /\ idx = 0
    /\ result = "none"
    /\ ncalls = 0
    /\ info_reqs = 0
    /\ info_fails = 0
    /\ last_body = None
    /\ sleeps = 0
    /\ res_reqs = <<>>
    /\ res_log = <<>>
    /\ makedirs_done = FALSE

-----------------------------------------------------------------------------
\* read_rte_file: numbers and dates

\* s without a leading sign
Unsigned(s) == IF s # <<>> /\ s[1] \in {"+", "-"} THEN Tail(s) ELSE s

\* the sign a leading "-" gives
SignOf(s) == IF s # <<>> /\ s[1] = "-" THEN -1 ELSE 1

\* the characters of s that are not c
Without(s, c) == SelectSeq(s, LAMBDA x : x # c)

\* float(): an underscore is accepted between two digits only
UnderscoresOk(t) ==
    \A i \in 1..Len(t) :
        t[i] = "_" =>
            /\ i > 1 /\ i < Len(t)
            /\ t[i - 1] \in Digits /\ t[i + 1] \in Digits

\* the capital of each letter of "infinity" and "nan"
UpperOf ==
    [c \in {"a", "f", "i", "n", "t", "y"} |->
        CASE c = "a" -> "A" [] c = "f" -> "F" [] c = "i" -> "I"
          [] c = "n" -> "N" [] c = "t" -> "T" [] c = "y" -> "Y"]

\* whether w is the word name, in any mix of small and capital letters
NameMatches(w, name) ==
    /\ Len(w) = Len(name)
    /\ \A i \in 1..Len(w) : w[i] \in {name[i], UpperOf[name[i]]}

\* float(): "inf" and "infinity"
IsInf(w) ==
    \/ NameMatches(w, <<"i", "n", "f">>)
    \/ NameMatches(w, <<"i", "n", "f", "i", "n", "i", "t", "y">>)

\* float(): "nan"
IsNan(w) == NameMatches(w, <<"n", "a", "n">>)

\* the part of a number before the exponent: digits with at most one point
\* and at least one digit
DecimalOk(m) ==
    /\ \A i \in 1..Len(m) : m[i] \in Digits \cup {"."}
    /\ Cardinality({i \in 1..Len(m) : m[i] = "."}) <= 1
    /\ \E i \in 1..Len(m) : m[i] \in Digits

\* an exponent: an optional sign and at least one digit
ExponentOk(e) == Unsigned(e) # <<>> /\ AllDigits(Unsigned(e))

\* where the exponent mark of u is; 0 when it has none
ExpPos(u) ==
    IF \E i \in 1..Len(u) : u[i] \in {"e", "E"}
    THEN CHOOSE i \in 1..Len(u) :
             u[i] \in {"e", "E"} /\ \A j \in 1..(i - 1) : u[j] \notin {"e", "E"}
    ELSE 0

\* the text before the exponent mark, and the text after it
MantissaText(u) == IF ExpPos(u) = 0 THEN u ELSE SubSeq(u, 1, ExpPos(u) - 1)
ExponentText(u) == IF ExpPos(u) = 0 THEN <<>> ELSE SubSeq(u, ExpPos(u) + 1, Len(u))

\* a number without its sign and without underscores
UnsignedOk(u) ==
    \/ IsInf(u)
    \/ IsNan(u)
    \/ /\ DecimalOk(MantissaText(u))
       /\ ExpPos(u) # 0 => ExponentOk(ExponentText(u))

\* whether float(s.strip()) returns rather than raising ValueError
FloatOk(s) ==
    /\ UnderscoresOk(Strip(s))
    /\ UnsignedOk(Unsigned(Without(Strip(s), "_")))

\* the positions of the digits of ds that are not zero
NonZero(ds) == {i \in 1..Len(ds) : DigitValue(ds[i]) # 0}

\* a string of digits without its leading zeros, without its trailing zeros
LeadingZerosDropped(ds) ==
    IF NonZero(ds) = {} THEN <<>> ELSE SubSeq(ds, First(NonZero(ds)), Len(ds))

TrailingZerosDropped(ds) ==
    IF NonZero(ds) = {} THEN <<>> ELSE SubSeq(ds, 1, Last(NonZero(ds)))

\* the significant digits of the text m, and the zeros that follow them
SigDigits(m) == TrailingZerosDropped(LeadingZerosDropped(Without(m, ".")))
TrailingZeros(m) == Len(LeadingZerosDropped(Without(m, "."))) - Len(SigDigits(m))

\* the number of digits after the point of m
FracLen(m) ==
    IF \E i \in 1..Len(m) : m[i] = "."
    THEN Len(m) - (CHOOSE i \in 1..Len(m) : m[i] = ".")
    ELSE 0

\* the value of the exponent text e
ExpValue(e) ==
    IF e = <<>> THEN 0
    ELSE SignOf(e) * ToInt(LeadingZerosDropped(Unsigned(e)))

\* the power of ten by which the significant digits of u are scaled
Exp10(u) ==
    ExpValue(ExponentText(u)) - FracLen(MantissaText(u))
        + TrailingZeros(MantissaText(u))

\* whether the exponent of u alone puts a value that is not zero beyond the
\* doubles: it is 10^9 or more (ten digits) and the text before it is too
\* short to bring the value back into range
ExponentDecides(u) ==
    /\ Len(LeadingZerosDropped(Unsigned(ExponentText(u)))) > 9
    /\ Len(MantissaText(u)) < 900000000

\* the values of float: not-a-number, the two infinities, and the finite
\* doubles sign * mant * 2^exp, mant being the digits (most significant
\* first) of an odd number, or no digit and exp 0 for the two zeros
NaN == [nan |-> TRUE]
Infinity(sign) == [inf |-> sign]
Zero(sign) == [sign |-> sign, mant |-> <<>>, exp |-> 0]

\* Decimal numbers of any length, for the rounding of float: int holds
\* the digits before the point without leading zeros and frac the digits
\* after it without trailing zeros, each digit a number of 0..9

Zeros(n) == [i \in 1..n |-> 0]

TrimLeft(a) ==
    IF \A i \in 1..Len(a) : a[i] = 0 THEN <<>>
    ELSE SubSeq(a, First({i \in 1..Len(a) : a[i] # 0}), Len(a))

TrimRight(a) ==
    IF \A i \in 1..Len(a) : a[i] = 0 THEN <<>>
    ELSE SubSeq(a, 1, Last({i \in 1..Len(a) : a[i] # 0}))

\* the digits v (without leading and trailing zeros) scaled by 10^e10
Decimal(v, e10) ==
    IF e10 >= 0 THEN [int |-> v \o Zeros(e10), frac |-> <<>>]
    ELSE IF -e10 < Len(v)
    THEN [int |-> SubSeq(v, 1, Len(v) + e10),
          frac |-> SubSeq(v, Len(v) + e10 + 1, Len(v))]
    ELSE [int |-> <<>>, frac |-> Zeros(-e10 - Len(v)) \o v]

\* the digits of twice the number of digits c, one digit more than c: a
\* digit is doubled and takes the carry of the digit after it, which is 1
\* when that digit is 5 or more
DoubledDigits(c) ==
    [i \in 1..(Len(c) + 1) |->
        ((IF i = 1 THEN 0 ELSE 2 * c[i - 1])
            + (IF i <= Len(c) /\ c[i] >= 5 THEN 1 ELSE 0)) % 10]

\* the digits of half the number of digits c, one digit more than c: a
\* digit is halved after taking ten from an odd digit before it
HalvedDigits(c) ==
    [i \in 1..(Len(c) + 1) |->
        ((IF i <= Len(c) THEN c[i] ELSE 0)
            + (IF i > 1 /\ c[i - 1] % 2 = 1 THEN 10 ELSE 0)) \div 2]

\* the decimal of the digits dd with n digits before the point
Pointed(dd, n) ==
    [int |-> TrimLeft(SubSeq(dd, 1, n)), frac |-> TrimRight(SubSeq(dd, n + 1, Len(dd)))]

\* 2 * x and x / 2, both exact
Double(x) == Pointed(DoubledDigits(x.int \o x.frac), Len(x.int) + 1)
Halve(x) == Pointed(HalvedDigits(x.int \o x.frac), Len(x.int))

\* x * 2^n, for n of either sign (zero stays zero)
RECURSIVE Scaled(_, _)
Scaled(x, n) ==
    IF n = 0 \/ x = [int |-> <<>>, frac |-> <<>>] THEN x
    ELSE IF n = 1 THEN Double(x)
    ELSE IF n = -1 THEN Halve(x)
    ELSE IF n > 0 THEN Scaled(Scaled(x, n \div 2), n - n \div 2)
    ELSE Scaled(Scaled(x, -((-n) \div 2)), n + (-n) \div 2)

\* whether the whole number of digits a is less than that of digits b
Less(a, b) ==
    \/ Len(a) < Len(b)
    \/ /\ Len(a) = Len(b)
       /\ \E i \in 1..Len(a) :
             a[i] < b[i] /\ \A j \in 1..(i - 1) : a[j] = b[j]

\* 2^52 and 2^53: a double has 53 bits
Two52 == <<4, 5, 0, 3, 5, 9, 9, 6, 2, 7, 3, 7, 0, 4, 9, 6>>
Two53 == <<9, 0, 0, 7, 1, 9, 9, 2, 5, 4, 7, 4, 0, 9, 9, 2>>

\* x * 2^e written with x in 2^52 .. 2^53 - 1 before the point, or below
\* 2^52 with e the least exponent of a double, -1074 (the subnormal doubles
\* are the multiples of 2^-1074)
RECURSIVE Normalized(_, _)
Normalized(x, e) ==
    IF ~Less(x.int, Two53) THEN Normalized(Halve(x), e + 1)
    ELSE IF Less(x.int, Two52) /\ e > -1074 THEN Normalized(Double(x), e - 1)
    ELSE [x |-> x, e |-> e]

\* an exponent near the one of the double of a number whose first
\* significant digit counts 10^sci: log2(10) is 3.3219...
NearExp(sci) ==
    IF (3322 * sci) \div 1000 - 52 < -1074 THEN -1074
    ELSE (3322 * sci) \div 1000 - 52

\* the whole number of digits a, plus one
Increment(a) ==
    IF \A i \in 1..Len(a) : a[i] = 9 THEN <<1>> \o Zeros(Len(a))
    ELSE [i \in 1..Len(a) |->
             IF i < Last({k \in 1..Len(a) : a[k] # 9}) THEN a[i]
             ELSE IF i = Last({k \in 1..Len(a) : a[k] # 9}) THEN a[i] + 1
             ELSE 0]

Odd(a) == a # <<>> /\ a[Len(a)] % 2 = 1

\* x rounded to a whole number, a half going to the even neighbour
RoundsUp(x) ==
    /\ x.frac # <<>>
    /\ \/ x.frac[1] > 5
       \/ x.frac[1] = 5 /\ Len(x.frac) > 1
       \/ x.frac = <<5>> /\ Odd(x.int)

RoundHalfEven(x) == IF RoundsUp(x) THEN Increment(x.int) ELSE x.int

\* the double sign * m * 2^e with m made odd by halving it
RECURSIVE Finite(_, _, _)
Finite(sign, m, e) ==
    IF m = <<>> THEN Zero(sign)
    ELSE IF Odd(m) THEN [sign |-> sign, mant |-> m, exp |-> e]
    ELSE Finite(sign, TrimLeft(SubSeq(HalvedDigits(m), 1, Len(m))), e + 1)

\* the double nearest to sign * x, n being x * 2^-e normalized: from 2^1024
\* on it is an infinity, the largest double being (2^53 - 1) * 2^971
Nearest(sign, n) ==
    IF n.e > 971 \/ (n.e = 971 /\ RoundHalfEven(n.x) = Two53) THEN Infinity(sign)
    ELSE Finite(sign, RoundHalfEven(n.x), n.e)

\* the significant digits v, a run of more than 800 cut to 800 digits and a
\* 1: the doubles and the numbers half way between two doubles have at most
\* 768 significant digits, so that the digits after the 800th decide no
\* rounding beyond not being all zero
Shortened(v) == IF Len(v) > 800 THEN SubSeq(v, 1, 800) \o <<1>> ELSE v

\* the double nearest to sign * v * 10^e10 for digits v without leading and
\* trailing zeros
NearestDouble(sign, v, e10) ==
    Nearest(sign,
            Normalized(Scaled(Decimal(Shortened(v), e10 + Len(v) - Len(Shortened(v))),
                              -NearExp(e10 + Len(v) - 1)),
                       NearExp(e10 + Len(v) - 1)))

\* the double nearest to sign * ds * 10^e10 for significant digits ds: the
\* largest double is 1.7976931348623157e308, so that from 10^309 on the
\* value is an infinity, and half the smallest double is 2.47e-324, so that
\* below 10^-324 it is a zero
Rounded(sign, ds, e10) ==
    IF e10 + Len(ds) - 1 > 308 THEN Infinity(sign)
    ELSE IF e10 + Len(ds) - 1 < -324 THEN Zero(sign)
    ELSE NearestDouble(sign, [i \in 1..Len(ds) |-> DigitValue(ds[i])], e10)

\* the value of the digits and exponent of u
DecimalValue(sign, u) ==
    IF SigDigits(MantissaText(u)) = <<>> THEN Zero(sign)
    ELSE IF ExponentDecides(u)
    THEN (IF SignOf(ExponentText(u)) < 0 THEN Zero(sign) ELSE Infinity(sign))
    ELSE Rounded(sign, SigDigits(MantissaText(u)), Exp10(u))

\* the value of a text without whitespace and underscores
SignedValue(t) ==
    IF IsNan(Unsigned(t)) THEN NaN
    ELSE IF IsInf(Unsigned(t)) THEN Infinity(SignOf(t))
    ELSE DecimalValue(SignOf(t), Unsigned(t))

\* float(s.strip()) for a string FloatOk accepts
FloatValue(s) == SignedValue(Without(Strip(s), "_"))

\* re.search(r'(\d{2})/(\d{2})/(\d{4})', line): whether the match starts at i
DateMatchAt(l, i) ==
    /\ i + 9 <= Len(l)
    /\ l[i] \in Digits /\ l[i + 1] \in Digits /\ l[i + 2] = "/"
    /\ l[i + 3] \in Digits /\ l[i + 4] \in Digits /\ l[i + 5] = "/"
    /\ l[i + 6] \in Digits /\ l[i + 7] \in Digits
    /\ l[i + 8] \in Digits /\ l[i + 9] \in Digits

\* where the leftmost match starts; 0 when re.search returns None
DateMatchPos(l) ==
    IF \E i \in 1..Len(l) : DateMatchAt(l, i)
    THEN CHOOSE i \in 1..Len(l) :
             DateMatchAt(l, i) /\ \A j \in 1..(i - 1) : ~DateMatchAt(l, j)
    ELSE 0

\* the groups of the match taken as month, day, year
DateStr_MonthFirst(l) ==
    LET i == DateMatchPos(l)
        month == SubSeq(l, i, i + 1)
        day == SubSeq(l, i + 3, i + 4)
        year == SubSeq(l, i + 6, i + 9)
    IN  year \o <<"-">> \o month \o <<"-">> \o day

\* day, month, year = match.groups(); date_str = f"{year}-{month}-{day}"
DateStr(l) ==
    LET i == DateMatchPos(l)
        day == SubSeq(l, i, i + 1)
        month == SubSeq(l, i + 3, i + 4)
        year == SubSeq(l, i + 6, i + 9)
    IN  year \o <<"-">> \o month \o <<"-">> \o day

DaysInMonth(y, m) ==
    IF m \in {4, 6, 9, 11} THEN 30
    ELSE IF m = 2
    THEN (IF (y % 4 = 0 /\ y % 100 # 0) \/ y % 400 = 0 THEN 29 ELSE 28)
    ELSE 31

\* the fields pd.to_datetime reads from a "YYYY-MM-DD" string
DateFields(str) ==
    [year |-> ToInt(SubSeq(str, 1, 4)),
     month |-> ToInt(SubSeq(str, 6, 7)),
     day |-> ToInt(SubSeq(str, 9, 10))]

\* whether d is a date of the calendar
CalendarDate(d) ==
    /\ d.month \in 1..12
    /\ d.day \in 1..DaysInMonth(d.year, d.month)

\* whether midnight of d is within Timestamp.min .. Timestamp.max of
\* nanosecond resolution (1677-09-21 00:12:43.145224193 and
\* 2262-04-11 23:47:16.854775807)
InNanosecondRange(d) ==
    /\ d.year * 10000 + d.month * 100 + d.day >= 16770922
    /\ d.year * 10000 + d.month * 100 + d.day <= 22620411

\* whether the digits of str are ASCII digits
AsciiDate(str) == \A i \in 1..Len(str) : str[i] \in AsciiDigits \cup {"-"}

\* whether pd.to_datetime(str) returns a Timestamp in some build: str is a
\* date of the calendar
ToDatetimeOk(str) == CalendarDate(DateFields(str))

\* whether pd.to_datetime(str) raises in some build: always when str is no
\* date of the calendar; when the date is outside the nanosecond range
\* (pandas 2 raises OutOfBoundsDatetime, pandas 3 picks a coarser unit) or is
\* written with other digits than the ASCII ones, the pandas version decides
ToDatetimeRaises(str) ==
    ~(/\ CalendarDate(DateFields(str))
      /\ InNanosecondRange(DateFields(str))
      /\ AsciiDate(str))

\* pd.to_datetime(str) when it returns
ToDatetime(str) == DateFields(str)

-----------------------------------------------------------------------------
\* read_rte_file and process_block

\* the raw lines a file is made of (f.readlines() keeps the newline)
LineEmpty == <<"\n">>
LineDate1 == <<"J", "o", "u", "r", "n", " ", "0", "5", "/", "0", "1", "/", "2", "0", "2", "5", "\n">>
LineDate2 == <<"J", "o", "u", "r", "n", " ", "0", "6", "/", "0", "1", "/", "2", "0", "2", "5", "\n">>
\* marker and DD/MM/YYYY digits that are no calendar date
LineBadDate == <<"J", "o", "u", "r", "n", " ", "3", "1", "/", "0", "2", "/", "2", "0", "2", "5", "\n">>
\* marker and "/" without a date
LineMarker == <<"J", "o", "u", "r", "n", " ", "/", "\n">>
LineHeures == <<"H", "e", "u", "r", "e", "s", "\t", "J", "\n">>
LineRow == <<" ", "0", "0", ":", "0", "0", "\t", "1", "\t", "2", ".", "5", "\t", "3", "\n">>
\* a third field that is no number
LineBadRow == <<"0", "0", ":", "3", "0", "\t", "1", "\t", "x", "\t", "3", "\n">>

\* the lines of well-formed and nearly well-formed files
FileLines ==
    { LineEmpty, LineDate1, LineDate2, LineMarker, LineHeures, LineRow }

\* the English column header
LineHours == <<"H", "o", "u", "r", "s", "\t", "D", "\n">>
\* three fields only
LineShortRow == <<"0", "1", ":", "0", "0", "\t", "1", "\t", "2", "\n">>
\* five fields
LineLongRow == <<"0", "1", ":", "3", "0", "\t", "4", "\t", "-", "5", "e", "1", "\t", "6", "\t", "7", "\n">>

\* whitespace that is not ASCII at both ends, a field of Tamil digits, an
\* infinite field and a field with an underscore
LineOddRow == <<"U+000B", "0", "2", ":", "0", "0", "\t", "U+0BE7", "U+0BE8", "\t", "-", "I", "n", "f", "\t", "1", "_", "0", "U+3000", "\n">>
\* a date of the calendar beyond the nanosecond range of Timestamp
LineFarDate == <<"J", "o", "u", "r", "n", " ", "0", "1", "/", "0", "1", "/", "2", "2", "6", "3", "\n">>

\* lines that process_block rejects, that make read_rte_file raise, or that
\* real files do not hold
OddLines ==
    { LineBadRow, LineBadDate, LineHours, LineShortRow, LineLongRow,
      LineOddRow, LineFarDate }

AllLines == FileLines \cup OddLines

StrJourn == <<"J", "o", "u", "r", "n">>
StrHeures == <<"H", "e", "u", "r", "e", "s">>

\* 'if "Journ" in line and "/" in line'
IsDateHeader(l) == Contains(l, StrJourn) /\ Contains(l, <<"/">>)

\* 'elif line.startswith("Heures")'
IsColumnHeader(l) == StartsWith(l, StrHeures)

\* 'elif in_data_block and current_date is not None'
IsData == in_data_block /\ current_date # None

\* the branch of the loop body a stripped line takes, the tests on the
\* parsing state apart
Branch(line) ==
    IF line = <<>> THEN "empty"
    ELSE IF IsDateHeader(line) THEN "date_header"
    ELSE IF IsColumnHeader(line) THEN "column_header"
    ELSE "other"

\* date_str of a stripped line, <<>> when re.search finds no match
MatchedDateStr(line) == IF DateMatchPos(line) = 0 THEN <<>> ELSE DateStr(line)

\* line.strip(), the branch and the date string of each line of AllLines
LineStripped == [raw \in AllLines |-> Strip(raw)]
LineBranch == [raw \in AllLines |-> Branch(Strip(raw))]
LineDateStr == [raw \in AllLines |-> MatchedDateStr(Strip(raw))]

\* the length test requiring exactly four fields
RowAccepted_ExactlyFour(parts) ==
    /\ Len(parts) = 4
    /\ FloatOk(parts[2]) /\ FloatOk(parts[3]) /\ FloatOk(parts[4])

\* process_block: 'if len(parts) >= 4' and the three float() calls succeed
RowAccepted(parts) ==
    /\ Len(parts) >= 4
    /\ FloatOk(parts[2]) /\ FloatOk(parts[3]) /\ FloatOk(parts[4])

\* process_block: the row appended to data_rows; n is the number of the
\* line in the file
RowOf(parts, n) ==
    [Heures |-> Strip(parts[1]),
     PrevisionJ1 |-> FloatValue(parts[2]),
     PrevisionJ |-> FloatValue(parts[3]),
     Consommation |-> FloatValue(parts[4]),
     src |-> n]

\* process_block: what the loop body appends to data_rows for a line, one
\* row or none; n is the number of the line in the file
LineRows(line, n) ==
    IF RowAccepted(Split(line, "\t")) THEN <<RowOf(Split(line, "\t"), n)>> ELSE <<>>

\* LineRows of each stripped line of AllLines, computed once
StrippedRows == [line \in {Strip(raw) : raw \in AllLines} |-> LineRows(line, 0)]

\* LineRows(line, n), read from StrippedRows for a line of AllLines
NumberedRows(line, n) ==
    IF line \in DOMAIN StrippedRows
    THEN [i \in 1..Len(StrippedRows[line]) |-> [StrippedRows[line][i] EXCEPT !.src = n]]
    ELSE LineRows(line, n)

\* process_block: the loop over block_lines
RECURSIVE DataRows(_, _)
DataRows(block_lines, srcs) ==
    IF block_lines = <<>> THEN <<>>
    ELSE NumberedRows(block_lines[1], srcs[1])
             \o DataRows(Tail(block_lines), Tail(srcs))

\* df['date'] = current_date
WithDate(rows, date) ==
    [i \in 1..Len(rows) |->
        [Heures |-> rows[i].Heures, PrevisionJ1 |-> rows[i].PrevisionJ1,
         PrevisionJ |-> rows[i].PrevisionJ, Consommation |-> rows[i].Consommation,
         src |-> rows[i].src, date |-> date]]

\* process_block: 'if not data_rows: return None' and the dataframe
DataFrame(data_rows, date) ==
    IF data_rows = <<>> THEN None ELSE [rows |-> WithDate(data_rows, date)]

\* process_block(block_lines, current_date): None or a dataframe
process_block(block_lines, srcs, date) ==
    IF block_lines = <<>> THEN None
    ELSE DataFrame(DataRows(block_lines, srcs), date)

\* 'if df_block is not None: all_dfs.append(df_block)'
AppendBlock(dfs, df_block) ==
    IF df_block # None THEN Append(dfs, df_block) ELSE dfs

\* 'if current_block_lines and current_date is not None: df_block =
\* process_block(current_block_lines, current_date)' and the append
FlushBlock(dfs) ==
    IF current_block_lines # <<>> /\ current_date # None
    THEN AppendBlock(dfs, process_block(current_block_lines, block_src, current_date))
    ELSE dfs

\* pd.concat(all_dfs, ignore_index=True), or pd.DataFrame() when all_dfs is
\* empty: the rows of the table
RECURSIVE Concat(_)
Concat(dfs) ==
    IF dfs = <<>> THEN <<>> ELSE dfs[1].rows \o Concat(Tail(dfs))

\* the for loop takes the next line of a file of at most n lines
ReadLine(raw, n) ==
    /\ ppc = "scan"
    /\ Len(lines_read) < n
    /\ lines_read' = Append(lines_read, raw)
    /\ UNCHANGED <<scrap_vars, main_vars>>

\* 'if not line: continue'
SkipEmptyLine(L, n) ==
    \E raw \in L :
        /\ ReadLine(raw, n)
        /\ LineBranch[raw] = "empty"
        /\ UNCHANGED <<all_dfs, current_date, current_block_lines, block_src,
                       in_data_block, ppc, table>>

\* the date header branch without the reset of in_data_block
DateHeader_KeepsFlag(L, n) ==
    \E raw \in L :
        /\ ReadLine(raw, n)
        /\ LineBranch[raw] = "date_header"
        /\ LineDateStr[raw] # <<>>
        /\ ToDatetimeOk(LineDateStr[raw])
        /\ all_dfs' = FlushBlock(all_dfs)
        /\ current_date' = ToDatetime(LineDateStr[raw])
        /\ current_block_lines' = <<>>
        /\ block_src' = <<>>
        /\ UNCHANGED <<in_data_block, ppc, table>>

\* a date header line whose date pd.to_datetime returns a Timestamp for
DateHeader(L, n) ==
    \E raw \in L :
        /\ ReadLine(raw, n)
        /\ LineBranch[raw] = "date_header"
        /\ LineDateStr[raw] # <<>>
        /\ ToDatetimeOk(LineDateStr[raw])
        /\ all_dfs' = FlushBlock(all_dfs)
        /\ current_date' = ToDatetime(LineDateStr[raw])
        /\ current_block_lines' = <<>>
        /\ block_src' = <<>>
        /\ in_data_block' = FALSE
        /\ UNCHANGED <<ppc, table>>

\* a date header line for whose digits pd.to_datetime raises
DateHeaderInvalid(L, n) ==
    \E raw \in L :
        /\ ReadLine(raw, n)
        /\ LineBranch[raw] = "date_header"
        /\ LineDateStr[raw] # <<>>
        /\ ToDatetimeRaises(LineDateStr[raw])
        /\ all_dfs' = FlushBlock(all_dfs)
        /\ ppc' = "raised"
        /\ UNCHANGED <<current_date, current_block_lines, block_src,
                       in_data_block, table>>

\* a line with the marker and a "/" in which the regex finds nothing: the
\* pending block is processed and nothing is reset
MarkerWithoutDate(L, n) ==
    \E raw \in L :
        /\ ReadLine(raw, n)
        /\ LineBranch[raw] = "date_header"
        /\ LineDateStr[raw] = <<>>
        /\ all_dfs' = FlushBlock(all_dfs)
        /\ UNCHANGED <<current_date, current_block_lines, block_src,
                       in_data_block, ppc, table>>

\* 'elif line.startswith("Heures")'
ColumnHeader(L, n) ==
    \E raw \in L :
        /\ ReadLine(raw, n)
        /\ LineBranch[raw] = "column_header"
        /\ in_data_block' = TRUE
        /\ current_block_lines' = <<>>
        /\ block_src' = <<>>
        /\ UNCHANGED <<all_dfs, current_date, ppc, table>>

\* 'elif in_data_block and current_date is not None'
DataLine(L, n) ==
    \E raw \in L :
        /\ ReadLine(raw, n)
        /\ LineBranch[raw] = "other"
        /\ IsData
        /\ current_block_lines' = Append(current_block_lines, LineStripped[raw])
        /\ block_src' = Append(block_src, Len(lines_read) + 1)
        /\ UNCHANGED <<all_dfs, current_date, in_data_block, ppc, table>>

\* a line no branch takes
OtherLine(L, n) ==
    \E raw \in L :
        /\ ReadLine(raw, n)
        /\ LineBranch[raw] = "other"
        /\ ~IsData
        /\ UNCHANGED <<all_dfs, current_date, current_block_lines, block_src,
                       in_data_block, ppc, table>>

\* the end of the file: the last block, then the concatenation
EndOfFile ==
    /\ ppc = "scan"
    /\ all_dfs' = FlushBlock(all_dfs)
    /\ table' = Concat(all_dfs')
    /\ ppc' = "done"
    /\ UNCHANGED <<lines_read, current_date, current_block_lines, block_src,
                   in_data_block>>
    /\ UNCHANGED <<scrap_vars, main_vars>>

\* read_rte_file before its for loop
ParseInit ==
    /\ lines_read = <<>>
    /\ all_dfs = <<>>
    /\ current_date = None
    /\ current_block_lines = <<>>
    /\ block_src = <<>>
    /\ in_data_block = FALSE
    /\ ppc = "scan"
    /\ table = <<>>

-----------------------------------------------------------------------------
\* main

\* 'cols.remove("date"); result_df[["date"] + cols]' and the columns of
\* process_block's dataframe: the column order of the returned table
Columns == <<"date", "Heures", "PrevisionJ1", "PrevisionJ", "Consommation">>

\* the cells df.to_csv(output_path, index=False) writes, in the order of the
\* text: the five column names, then the five cells of each row (a line of
\* the file is five cells; the text of a cell is not modelled)
CsvCells(rows) ==
    [i \in 1..(5 * (Len(rows) + 1)) |->
        IF i <= 5 THEN Columns[i]
        ELSE rows[(i - 1) \div 5][Columns[((i - 1) % 5) + 1]]]

\* a file holding the first k cells of the text of rows; torn tells that the
\* text ends inside the cell after them
CsvFile(rows, k, torn) == [cells |-> SubSeq(CsvCells(rows), 1, k), torn |-> torn]

\* the file a df.to_csv that returns leaves
ToCsv(rows) == CsvFile(rows, Len(CsvCells(rows)), FALSE)

\* a CSV file an earlier run of main left at output_path: the line 'date'
OldCsv == [cells |-> <<"date">>, torn |-> FALSE]

\* read_rte_file: 'with open(file_path, "r", encoding="utf-8")' or
\* f.readlines() raises (no such file, no permission, bytes that are not UTF-8)
OpenFails ==
    /\ ppc = "scan"
    /\ lines_read = <<>>
    /\ mpc = "start"
    /\ ppc' = "unreadable"
    /\ UNCHANGED <<lines_read, all_dfs, current_date, current_block_lines,
                   block_src, in_data_block, table>>
    /\ UNCHANGED <<scrap_vars, main_vars>>

\* main: print("Reading RTE consumption data...") of line 116, which is
\* before the try, raises (the stream of stdout cannot be written to): the
\* exception leaves main and read_rte_file is not called
MainFirstPrintFails ==
    /\ mpc = "start"
    /\ ppc = "scan"
    /\ lines_read = <<>>
    /\ mpc' = "propagated"
    /\ ppc' = "not_called"
    /\ csv' = csv
    /\ UNCHANGED <<lines_read, all_dfs, current_date, current_block_lines,
                   block_src, in_data_block, table>>
    /\ UNCHANGED scrap_vars

\* main: the handler of 'except Exception' (lines 138-141): print(f"Error:
\* {e}") and traceback.print_exc() return and main returns, or one of them
\* raises (a stream that cannot be written to, or that cannot encode the
\* message) and the exception leaves main
Handler == mpc' \in {"returned", "propagated"}

\* main: read_rte_file raised, which 'except Exception' catches
MainCatches ==
    /\ mpc = "start"
    /\ ppc \in {"raised", "unreadable"}
    /\ Handler
    /\ csv' = csv
    /\ UNCHANGED <<scrap_vars, parse_vars>>

\* main: read_rte_file returned pd.DataFrame(); a print of lines 123-124
\* or df['date'] of line 125 (KeyError) raises, which 'except Exception'
\* catches before to_csv is reached
MainEmptyTable ==
    /\ mpc = "start"
    /\ ppc = "done"
    /\ table = <<>>
    /\ Handler
    /\ csv' = csv
    /\ UNCHANGED <<scrap_vars, parse_vars>>

\* main: the prints succeed and df.to_csv writes the whole table
MainWritesCsv ==
    /\ mpc = "start"
    /\ ppc = "done"
    /\ table # <<>>
    /\ mpc' = "returned"
    /\ csv' = ToCsv(table)
    /\ UNCHANGED <<scrap_vars, parse_vars>>

\* main: df.to_csv writes the whole table and the print of line 136 raises,
\* which 'except Exception' catches
MainLastPrintFails ==
    /\ mpc = "start"
    /\ ppc = "done"
    /\ table # <<>>
    /\ Handler
    /\ csv' = ToCsv(table)
    /\ UNCHANGED <<scrap_vars, parse_vars>>

\* main: with a table of rows, a print of lines 123-131 raises (the stream
\* of stdout cannot encode a column name, or cannot be written to) or
\* df.to_csv raises before the file is opened for writing (output_path is a
\* directory or a file that may not be written): 'except Exception' catches
\* it and the file is as it was
MainFailsBeforeWrite ==
    /\ mpc = "start"
    /\ ppc = "done"
    /\ table # <<>>
    /\ Handler
    /\ csv' = csv
    /\ UNCHANGED <<scrap_vars, parse_vars>>

\* main: df.to_csv opens the file, which empties it, and raises OSError
\* when only a part of the text is written, which 'except Exception'
\* catches: the file ends after k cells or inside the next one
MainCsvFails ==
    /\ mpc = "start"
    /\ ppc = "done"
    /\ table # <<>>
    /\ Handler
    /\ \E k \in 0..(Len(CsvCells(table)) - 1), torn \in BOOLEAN :
          csv' = CsvFile(table, k, torn)
    /\ UNCHANGED <<scrap_vars, parse_vars>>

\* main before its try block, on a directory without an output CSV
MainInit ==
    /\ mpc = "start"
    /\ csv = None

-----------------------------------------------------------------------------
\* The two programs as state machines

\* a scrapper object and calls on it; read_rte_file is not run
Init == ScrapInit /\ ParseInit /\ MainInit

Next ==
    \/ \E f \in BOOLEAN : Call_fetch_dataset_infos(f)
    \/ \E f \in BOOLEAN : Call_fetch_resources(f)
    \/ \E f \in BOOLEAN, flt \in Filters : Call_download_resources(f, flt)
    \/ \E body \in InfoBodies : InfosRequestOk(body)
    \/ InfosRequestFails
    \/ ForDone
    \/ ForFiltered
    \/ ForExists
    \/ ForFetch
    \/ DownloadOk
    \/ DownloadOpenFails
    \/ DownloadWriteFails
    \/ DownloadRequestFails

Spec == Init /\ [][Next]_vars

\* read_rte_file on a file of at most MaxLines lines; the scrapper is not used
InitParse == ScrapInit /\ max_retries = 1 /\ ParseInit /\ MainInit

NextParse ==
    \/ SkipEmptyLine(FileLines, MaxLines)
    \/ DateHeader(FileLines, MaxLines)
    \/ MarkerWithoutDate(FileLines, MaxLines)
    \/ ColumnHeader(FileLines, MaxLines)
    \/ DataLine(FileLines, MaxLines)
    \/ OtherLine(FileLines, MaxLines)
    \/ EndOfFile

SpecParse == InitParse /\ [][NextParse]_vars

\* read_rte_file on a file of at most MaxOddLines lines, the lines that make
\* it raise included
NextParseOdd ==
    \/ SkipEmptyLine(AllLines, MaxOddLines)
    \/ DateHeader(AllLines, MaxOddLines)
    \/ DateHeaderInvalid(AllLines, MaxOddLines)
    \/ MarkerWithoutDate(AllLines, MaxOddLines)
    \/ ColumnHeader(AllLines, MaxOddLines)
    \/ DataLine(AllLines, MaxOddLines)
    \/ OtherLine(AllLines, MaxOddLines)
    \/ EndOfFile

SpecParseOdd == InitParse /\ [][NextParseOdd]_vars

\* main on a file of at most MaxMainLines lines or on an unreadable file,
\* with or without an output CSV left by an earlier run
InitMain ==
    /\ ScrapInit /\ max_retries = 1
    /\ ParseInit
    /\ mpc = "start"
    /\ csv \in {None, OldCsv}

NextMain ==
    \/ MainFirstPrintFails
    \/ OpenFails
    \/ SkipEmptyLine(AllLines, MaxMainLines)
    \/ DateHeader(AllLines, MaxMainLines)
    \/ DateHeaderInvalid(AllLines, MaxMainLines)
    \/ MarkerWithoutDate(AllLines, MaxMainLines)
    \/ ColumnHeader(AllLines, MaxMainLines)
    \/ DataLine(AllLines, MaxMainLines)
    \/ OtherLine(AllLines, MaxMainLines)
    \/ EndOfFile
    \/ MainCatches
    \/ MainEmptyTable
    \/ MainFailsBeforeWrite
    \/ MainWritesCsv
    \/ MainLastPrintFails
    \/ MainCsvFails

SpecMain == InitMain /\ [][NextMain]_vars

-----------------------------------------------------------------------------
\* Claims about the downloader

\* the call in progress, or the last one, is a download_resources call that
\* reached its for loop
InDownload == op = "download_resources" /\ makedirs_done

\* C1: _fetch_dataset_infos sends at most max_retries requests to the
\* dataset-info endpoint, every request before a successful one failed and
\* none follows it, the body of the successful one is what infos holds, and
\* 'Max retries exceeded' is raised exactly when max_retries requests in a
\* row failed.
C1_FetchInfosRetry ==
    /\ info_reqs <= max_retries
    /\ info_fails <= info_reqs
    /\ info_reqs - info_fails <= 1
    /\ (pc = "fetch_infos" => info_reqs = info_fails /\ info_fails < max_retries)
    /\ (info_reqs > info_fails => infos = last_body /\ last_body \in InfoBodies)
    /\ (result = "MaxRetriesExceeded" <=> info_fails = max_retries)
    /\ (result = "MaxRetriesExceeded" => info_reqs = max_retries)

\* C1 witness: a direct call that failed max_retries - 1 times and succeeded
\* on its last permitted attempt
C1_Witness ==
    /\ op = "_fetch_dataset_infos" /\ pc = "idle" /\ result = "returned"
    /\ max_retries >= 2
    /\ info_fails = max_retries - 1
    /\ info_reqs = max_retries
    /\ infos = last_body

\* C2: a forced fetch_resources or download_resources call that is past its
\* dataset-info stage has sent at least one request to the dataset-info
\* endpoint and holds the resources of the body that request returned.
C2_ForcedCallRefetches ==
    (/\ op \in {"fetch_resources", "download_resources"}
     /\ force
     /\ pc # "fetch_infos"
     /\ result # "MaxRetriesExceeded")
    => (info_reqs >= 1 /\ resources = Get(last_body, "resources", <<>>))

\* C3: while a descriptor is cached, no step of a non-forced call sends a
\* request to the dataset-info endpoint or changes infos; a completed
\* _fetch_dataset_infos(force=True) call has sent at least one request.
C3_CacheHoldsUnlessForced ==
    [][ /\ (infos # None /\ ~force')
              => (infos' = infos /\ info_reqs' # info_reqs + 1 /\ pc' # "fetch_infos")
        /\ (op' = "_fetch_dataset_infos" /\ force' /\ pc' = "idle")
              => info_reqs' >= 1 ]_vars

\* C3 witness: a second, non-forced download_resources call ran to its end on
\* a cached descriptor without any dataset-info request
C3_Witness ==
    /\ ncalls = 2 /\ op = "download_resources" /\ ~force
    /\ pc = "idle" /\ result = "returned"
    /\ infos # None /\ info_reqs = 0
    /\ Len(resources) > 0

\* C4: when the for loop is at a resource whose derived filename exists, the
\* step it takes sends no request for any resource, leaves every file as it
\* is and moves on to the next resource (or the resource is filtered out),
\* whatever force is; a resource skipped so has no request in the call.
C4_SkipIfExists ==
    [][ /\ (pc = "for" /\ idx <= Len(resources) /\ PathExists(Filename(CurrentUrl)))
            => /\ files' = files
               /\ res_reqs' = res_reqs
               /\ pc' = "for" /\ idx' = idx + 1
               /\ res_log'[idx] \in {"exists", "filtered"}
        /\ \A i \in DOMAIN res_log' :
              res_log'[i] = "exists" => res_reqs'[i] = 0 ]_vars

\* C4 witness: a forced call skipped a resource whose file an earlier call
\* had written
C4_Witness ==
    /\ InDownload /\ force
    /\ \E i \in DOMAIN res_log :
          /\ res_log[i] = "exists"
          /\ Filename(resources[i].url) \in DOMAIN files
          /\ res_reqs[i] = 0

\* C5: a resource whose requests all failed is passed over after max_retries
\* requests without an exception, and a download_resources call that no write
\* error ended has visited every position of the list and sent at least one
\* request for every resource that was neither filtered out nor on disk.
C5_NoEarlyAbort ==
    InDownload =>
      /\ \A i \in DOMAIN res_log :
            /\ res_log[i] = "failed" => (res_reqs[i] = max_retries /\ idx > i)
            /\ i < idx => res_log[i] \in {"filtered", "exists", "downloaded", "failed"}
            /\ res_log[i] \in {"downloaded", "failed"} => res_reqs[i] >= 1
      /\ result \in {"running", "returned", "OSError"}
      /\ result = "OSError" => (idx \in DOMAIN res_log /\ res_log[idx] = "write_error")
      /\ result = "returned" => idx = Len(resources) + 1

\* C5 witness: the call returned after a resource exhausted its retries and a
\* later resource was requested
C5_Witness ==
    /\ InDownload /\ pc = "idle" /\ result = "returned"
    /\ \E i, j \in DOMAIN res_log :
          /\ i < j
          /\ res_log[i] = "failed"
          /\ res_reqs[j] >= 1

\* C6: the attempt counter is the number of requests sent for the resource
\* the loop is at, no resource gets more than max_retries requests, a
\* resource given up got exactly max_retries, and requests are only sent for
\* the resource the loop is at while it is still pending (none after its
\* successful one).
C6_RetriesPerResource ==
    [][ /\ InDownload' =>
            /\ \A i \in DOMAIN res_reqs' : res_reqs'[i] <= max_retries
            /\ \A i \in DOMAIN res_log' :
                  res_log'[i] = "failed" => res_reqs'[i] = max_retries
            /\ pc' = "while" => (attempt' = res_reqs'[idx'] /\ attempt' < max_retries)
        /\ (InDownload /\ ncalls' = ncalls) =>
            \A i \in DOMAIN res_reqs :
                res_reqs'[i] # res_reqs[i] =>
                    /\ pc = "while" /\ idx = i /\ res_log[i] = "pending"
                    /\ res_reqs'[i] = res_reqs[i] + 1 ]_vars

\* C6 witness: two resources of one call were each given up after max_retries
\* requests
C6_Witness ==
    /\ InDownload /\ max_retries >= 2
    /\ \E i, j \in DOMAIN res_log :
          /\ i < j
          /\ res_log[i] = "failed" /\ res_reqs[i] = max_retries
          /\ res_log[j] = "failed" /\ res_reqs[j] = max_retries

\* the URLs the portal lists
AllUrls == {UrlA, UrlB, UrlC, UrlD}

\* C7: every file of the destination directory holds the complete response
\* body of a resource whose derived filename it is.
C7_FilesAreComplete ==
    \A p \in DOMAIN files :
        \E u \in AllUrls : Filename(u) = p /\ files[p] = ResponseContent(u)

\* C15: when the for loop is at a resource whose URL the filter rejects, the
\* step it takes sends no request, writes no file and logs the resource as
\* filtered, whether or not the derived filename exists; a resource logged
\* as filtered has no request in the call.
C15_FilterBeforeExists ==
    [][ /\ (pc = "for" /\ idx <= Len(resources)
             /\ filter.given /\ CurrentUrl \notin filter.accept)
            => /\ files' = files
               /\ res_reqs' = res_reqs
               /\ pc' = "for" /\ idx' = idx + 1
               /\ res_log' = [res_log EXCEPT ![idx] = "filtered"]
        /\ \A i \in DOMAIN res_log' :
              /\ res_log'[i] = "filtered" => res_reqs'[i] = 0
              /\ (filter'.given /\ resources'[i].url \notin filter'.accept)
                    => res_log'[i] \in {"pending", "filtered"} ]_vars

\* C15 witness: one call passed over two rejected resources, the file of one
\* on disk and the file of the other not
C15_Witness ==
    /\ InDownload /\ filter.given
    /\ \E i, j \in DOMAIN res_log :
          /\ res_log[i] = "filtered" /\ res_log[j] = "filtered"
          /\ Filename(resources[i].url) \in DOMAIN files
          /\ Filename(resources[j].url) \notin DOMAIN files

\* the smaller of two numbers
Min(a, b) == IF a < b THEN a ELSE b

\* C16: in the dataset-info loop the number of sleeps is the number of failed
\* attempts, less one when the last permitted attempt failed; in the loop of
\* a resource the number of sleeps is the number of attempts made so far
\* while the loop runs, max_retries - 1 right after it is given up, and the
\* number of failed attempts right after it ends with a successful request.
C16_SleepsBetweenAttempts ==
    /\ (pc = "fetch_infos" \/ ~makedirs_done)
          => sleeps = Min(info_fails, max_retries - 1)
    /\ result = "MaxRetriesExceeded" => sleeps = max_retries - 1
    /\ pc = "while" => (sleeps = res_reqs[idx] /\ sleeps <= max_retries - 1)
    /\ (InDownload /\ idx > 1 /\ pc # "while" /\ result # "OSError") =>
          /\ res_log[idx - 1] = "failed" => sleeps = max_retries - 1
          /\ res_log[idx - 1] = "downloaded" => sleeps = res_reqs[idx - 1] - 1
    /\ (InDownload /\ result = "OSError") => sleeps = res_reqs[idx] - 1

\* C16 witness: with max_retries = 2, the dataset-info fetch of a
\* download_resources call failed once before it succeeded, and a resource
\* of the same call was given up after one sleep
C16_Witness ==
    /\ InDownload /\ max_retries = 2
    /\ info_fails = 1
    /\ idx > 1 /\ res_log[idx - 1] = "failed"
    /\ res_reqs[idx - 1] = 2
    /\ sleeps = 1

\* C18: no step of a dataset-info fetch that has not succeeded changes infos
\* or resources, so a call that ends with 'Max retries exceeded' leaves both
\* as they were before it.
C18_FailedFetchKeepsCache ==
    [][ (pc' = "fetch_infos" \/ result' = "MaxRetriesExceeded")
           => (infos' = infos /\ resources' = resources) ]_vars

\* C18 witness: a forced _fetch_dataset_infos call exhausted its retries
\* while the descriptor and the resources of an earlier call were cached
C18_Witness ==
    /\ ncalls = 2 /\ op = "_fetch_dataset_infos" /\ force
    /\ pc = "idle" /\ result = "MaxRetriesExceeded"
    /\ infos \in InfoBodies
    /\ Len(resources) > 0

\* C19: no step of the dataset-info fetch of a download_resources call, its
\* last failed attempt included, creates a directory, writes a file or
\* requests a resource URL; a first call that ends so leaves nothing on disk.
C19_NoEffectBeforeInfos ==
    [][ (op' = "download_resources"
         /\ (pc' = "fetch_infos" \/ result' = "MaxRetriesExceeded"))
           => /\ dirs' = dirs /\ files' = files
              /\ ~makedirs_done' /\ res_reqs' = <<>>
              /\ ncalls' = 1 => (dirs' = {} /\ files' = <<>>) ]_vars

\* C19 witness: the first call on the object is a download_resources call
\* that raised 'Max retries exceeded', and the destination does not exist
C19_Witness ==
    /\ ncalls = 1 /\ op = "download_resources"
    /\ pc = "idle" /\ result = "MaxRetriesExceeded"
    /\ info_fails = max_retries
    /\ DownloadPath \notin dirs /\ files = <<>>

-----------------------------------------------------------------------------
\* Claims about read_rte_file

\* C8: in the table read_rte_file returns, no line of the file is the source
\* of more than one row (every row belongs to one block, emitted once).
C8_EachLineAtMostOneRow ==
    ppc = "done" =>
        \A i, j \in DOMAIN table : i # j => table[i].src # table[j].src

\* C9: the rows of the returned table are in the order of their source lines.
C9_RowsInSourceOrder ==
    ppc = "done" =>
        \A i, j \in DOMAIN table : i < j => table[i].src <= table[j].src

\* the date header lines of the files and the date each one states
DateLines == {LineDate1, LineDate2}
StatedDate(raw) ==
    IF raw = LineDate1 THEN [year |-> 2025, month |-> 1, day |-> 5]
    ELSE [year |-> 2025, month |-> 1, day |-> 6]

\* whether line h is the nearest date header line before line k
NearestHeader(h, k) ==
    /\ h < k
    /\ lines_read[h] \in DateLines
    /\ \A j \in (h + 1)..(k - 1) : lines_read[j] \notin DateLines

\* C10: every row of the returned table carries the date stated by the
\* nearest date header line before the row's source line.
C10_RowsCarryBlockDate ==
    ppc = "done" =>
        \A i \in DOMAIN table :
            \E h \in 1..Len(lines_read) :
                /\ NearestHeader(h, table[i].src)
                /\ table[i].date = StatedDate(lines_read[h])

\* C10 witness: two single-block files with different dates, concatenated,
\* give a table of two rows whose dates are the two dates of the headers
C10_Witness ==
    /\ ppc = "done"
    /\ lines_read = <<LineDate1, LineHeures, LineRow, LineDate2, LineHeures, LineRow>>
    /\ Len(table) = 2
    /\ table[1].date = [year |-> 2025, month |-> 1, day |-> 5]
    /\ table[2].date = [year |-> 2025, month |-> 1, day |-> 6]

\* the lines that hold at least four tab-separated fields of which the
\* second, third and fourth are numbers, and the row each one states
AcceptedLines == {LineRow, LineLongRow, LineOddRow}
StatedRow(k, date) ==
    IF lines_read[k] = LineRow
    THEN [Heures |-> <<"0", "0", ":", "0", "0">>,
          PrevisionJ1 |-> [sign |-> 1, mant |-> <<1>>, exp |-> 0],
          PrevisionJ |-> [sign |-> 1, mant |-> <<5>>, exp |-> -1],
          Consommation |-> [sign |-> 1, mant |-> <<3>>, exp |-> 0],
          src |-> k, date |-> date]
    ELSE IF lines_read[k] = LineLongRow
    THEN [Heures |-> <<"0", "1", ":", "3", "0">>,
          PrevisionJ1 |-> [sign |-> 1, mant |-> <<1>>, exp |-> 2],
          PrevisionJ |-> [sign |-> -1, mant |-> <<2, 5>>, exp |-> 1],
          Consommation |-> [sign |-> 1, mant |-> <<3>>, exp |-> 1],
          src |-> k, date |-> date]
    ELSE [Heures |-> <<"0", "2", ":", "0", "0">>,
          PrevisionJ1 |-> [sign |-> 1, mant |-> <<3>>, exp |-> 2],
          PrevisionJ |-> [inf |-> -1],
          Consommation |-> [sign |-> 1, mant |-> <<5>>, exp |-> 1],
          src |-> k, date |-> date]

\* the accumulated lines of the pending block that are accepted lines
AcceptedSrcs == SelectSeq(block_src, LAMBDA k : lines_read[k] \in AcceptedLines)

\* the lines of the date-header branch, and the steps in which the pending
\* block is handed to process_block
HeaderBranchLines == {LineDate1, LineDate2, LineBadDate, LineFarDate, LineMarker}
BlockProcessed ==
    /\ block_src # <<>> /\ current_date # None
    /\ \/ ppc = "scan" /\ ppc' = "done"
       \/ /\ Len(lines_read') = Len(lines_read) + 1
          /\ lines_read'[Len(lines_read')] \in HeaderBranchLines

\* C11: whenever process_block is given the pending block, it appends one
\* dataframe holding exactly one row per accepted line of the block, in
\* order, built from the first four fields of the line, or appends nothing
\* when the block holds no accepted line; no other step appends a block, and
\* read_rte_file raises only on a date header line whose digits are no date
\* or a date beyond the range of Timestamp.
C11_RowsOfAcceptedLines ==
    [][ /\ IF BlockProcessed /\ AcceptedSrcs # <<>>
           THEN all_dfs' = Append(all_dfs,
                    [rows |-> [i \in 1..Len(AcceptedSrcs) |->
                                  StatedRow(AcceptedSrcs[i], current_date)]])
           ELSE all_dfs' = all_dfs
        /\ (ppc = "scan" /\ ppc' = "raised")
              => lines_read'[Len(lines_read')] \in {LineBadDate, LineFarDate} ]_vars

\* C11 witness: a block of a rejected line and a five-field line gave a
\* table of the one row of the five-field line
C11_Witness ==
    /\ ppc = "done"
    /\ lines_read = <<LineDate1, LineHeures, LineBadRow, LineLongRow>>
    /\ Len(table) = 1
    /\ table[1].src = 4
    /\ table[1].PrevisionJ = [sign |-> -1, mant |-> <<2, 5>>, exp |-> 1]

\* C12: read_rte_file does not raise on any content of a readable file.
C12_NeverRaises == ppc # "raised"

\* the lines that start with a column-header token and are no date header
ColumnHeaderLines == {LineHeures, LineHours}

\* C13: right after a line that starts with "Heures" or "Hours" is read, the
\* within-data-section flag is true.
C13_BothTokensOpenData ==
    (/\ ppc = "scan"
     /\ lines_read # <<>>
     /\ lines_read[Len(lines_read)] \in ColumnHeaderLines)
    => in_data_block

\* C14: right after a date header line with a date is read, the accumulator
\* is empty and the within-data-section flag is false; and in the returned
\* table every row's source line has a column header line between it and
\* each date header line before it (no row comes from a line located between
\* a date header and the next column header).
C14_DateHeaderResets ==
    /\ (ppc = "scan" /\ lines_read # <<>> /\ lines_read[Len(lines_read)] \in DateLines)
          => (current_block_lines = <<>> /\ block_src = <<>> /\ ~in_data_block)
    /\ ppc = "done" =>
          \A i \in DOMAIN table :
              \A h \in 1..(table[i].src - 1) :
                  lines_read[h] \in DateLines =>
                      \E j \in (h + 1)..(table[i].src - 1) : lines_read[j] = LineHeures

\* C14 witness: the second block of the file has a data-shaped line and no
\* column header, and the table holds the row of the first block only
C14_Witness ==
    /\ ppc = "done"
    /\ lines_read = <<LineDate1, LineHeures, LineRow, LineDate2, LineRow>>
    /\ Len(table) = 1
    /\ table[1].src = 3

\* C17: right after a column header line is read the accumulator is empty;
\* and in the returned table no row's source line is followed, within its
\* block (before the next date header line), by a column header line.
C17_OnlyAfterLastColumnHeader ==
    /\ (ppc = "scan" /\ lines_read # <<>> /\ lines_read[Len(lines_read)] = LineHeures)
          => (current_block_lines = <<>> /\ block_src = <<>>)
    /\ ppc = "done" =>
          \A i \in DOMAIN table :
              \A j \in (table[i].src + 1)..Len(lines_read) :
                  lines_read[j] = LineHeures =>
                      \E h \in (table[i].src + 1)..(j - 1) : lines_read[h] \in DateLines

-----------------------------------------------------------------------------
\* Claims about main

\* C20: main never lets an exception out (it ends by returning), and the
\* output CSV is written or changed only by a main that got a table of at
\* least one row from read_rte_file, so on an unreadable file, on a raising
\* read_rte_file and on an empty table the CSV is left as it was.
C20_MainCatchesAll ==
    [][ /\ mpc' \in {"start", "returned"}
        /\ csv' # csv => (mpc = "start" /\ ppc = "done" /\ Len(table) >= 1)
        /\ (mpc = "start" /\ mpc' # "start"
               /\ (ppc \in {"raised", "unreadable"} \/ table = <<>>))
              => csv' = csv ]_vars

=============================================================================
